---- MODULE Spec2Model ----
(***************************************************************************)
(* Ring exchange of a model's parameter tensors between the processes of   *)
(* scripts/data-parallelism/agn.py: argument parsing, main, the master and *)
(* worker loops, and the per-tensor blocking send / receive.               *)
(***************************************************************************)
EXTENDS Integers, Sequences, FiniteSets, TLC

VARIABLES
    world,        \* number of processes that were launched
    cap,          \* tensors the transport buffers per ordered pair (0: rendezvous)
    argv,         \* argv[p]: sys.argv of process p
    settings,     \* settings[p]: the dict built by parse_arguments
    iters,        \* the --iterations value the processes were launched with
    pc,           \* pc[p]: "start", the call p is in ("m_seed", "m_recv", "m_send",
                  \* "m_drain", "w_recv", "w_send"), "done", "exit" (after usage)
                  \* "crashed" (uncaught exception) or "failed" (uncaught
                  \* transport error of dist.send / dist.recv); "set" and
                  \* "set_done" before and after a call of set_parameterization
    group,        \* group[p]: dist.init_process_group was called
    printed,      \* printed[p]: usage() was called
    model,        \* model[p][i]: the i-th parameter tensor of p's model
    loop,         \* loop[p]: the loop variable i of optimize_master / optimize
    slot,         \* slot[p]: number of tensors the current call has finished
    phase,        \* phase[p]: "call" or "wait" (dist.send posted, not yet returned)
    chan,         \* chan[<<s, d>>]: tensors sent by rank s to rank d, not yet received
    trace,        \* trace[p]: the calls p has started, in order
    nsend,        \* nsend[p]: send_model calls that returned
    nrecv,        \* nrecv[p]: receive_model calls that returned
    visits,       \* visits[p]: receive_model calls that left the master's payload in p
    updates,      \* the ranks that passed the place of the training step, in order
    sent,         \* sent[p][k]: the payload p passed to its k-th send_model
    written,      \* written[p][i]: which sent tensor (call, index) is in slot i of p
    params        \* the parameters argument of set_parameterization

vars == <<world, cap, argv, iters, settings, pc, group, printed, model, loop,
          slot, phase, chan, trace, nsend, nrecv, visits, updates, sent,
          written, params>>

----------------------------------------------------------------------------
(* Bounds of the model.                                                    *)

MaxWorld == 3
MaxIter == 2
MaxCap == 1
MaxTensors == 3

----------------------------------------------------------------------------
(* Values of the settings dict: None, an int, or a str (a character        *)
(* sequence).                                                              *)

None == [t |-> "none", v |-> 0, s |-> <<>>]

IntV(n) == [t |-> "int", v |-> n, s |-> <<>>]

StrV(str) == [t |-> "str", v |-> 0, s |-> str]

Digits == {"0", "1", "2", "3", "4", "5", "6", "7", "8", "9"}

DigitVal(c) ==
    CASE c = "0" -> 0 [] c = "1" -> 1 [] c = "2" -> 2 [] c = "3" -> 3
      [] c = "4" -> 4 [] c = "5" -> 5 [] c = "6" -> 6 [] c = "7" -> 7
      [] c = "8" -> 8 [] c = "9" -> 9

\* The digits of a decimal literal once its sign is removed.
IntBody(str) ==
    IF Len(str) > 0 /\ str[1] \in {"+", "-"} THEN Tail(str) ELSE str

RECURSIVE DecimalValue(_)
DecimalValue(ds) ==
    IF ds = <<>> THEN 0
    ELSE 10 * DecimalValue(SubSeq(ds, 1, Len(ds) - 1)) + DigitVal(ds[Len(ds)])

\* int(x) raises for None and for a str that is not a decimal literal.
IntRaises(x) ==
    \/ x.t = "none"
    \/ /\ x.t = "str"
       /\ \/ IntBody(x.s) = <<>>
          \/ \E i \in 1..Len(IntBody(x.s)) : IntBody(x.s)[i] \notin Digits

\* int(x) when it does not raise.
IntOf(x) ==
    IF x.t = "int" THEN x.v
    ELSE IF x.s[1] = "-" THEN 0 - DecimalValue(IntBody(x.s))
    ELSE DecimalValue(IntBody(x.s))

----------------------------------------------------------------------------
(* Command line flags and tokens.                                          *)

K_rank == <<"-", "-", "r", "a", "n", "k">>

K_world_size == <<"-", "-", "w", "o", "r", "l", "d", "-", "s", "i", "z", "e">>

K_announce_port ==
    <<"-", "-", "a", "n", "n", "o", "u", "c", "e", "-", "p", "o", "r", "t">>

K_communication_frequency ==
    <<"-", "-", "c", "o", "m", "m", "u", "n", "i", "c", "a", "t", "i", "o", "n",
      "-", "f", "r", "e", "q", "u", "e", "n", "c", "y">>

K_backend == <<"-", "-", "b", "a", "c", "k", "e", "n", "d">>

K_master == <<"-", "-", "m", "a", "s", "t", "e", "r">>

K_master_port == <<"-", "-", "m", "a", "s", "t", "e", "r", "-", "p", "o", "r", "t">>

K_iterations == <<"-", "-", "i", "t", "e", "r", "a", "t", "i", "o", "n", "s">>

D_announce_port == 5001

D_communication_frequency == 15

D_backend == <<"t", "c", "p">>

D_master == <<"1", "2", "7", ".", "0", ".", "0", ".", "1">>

D_master_port == 5000

D_num_iterations == 1000

\* sys.argv[0]
Script == <<"a", "g", "n", ".", "p", "y">>

----------------------------------------------------------------------------
(* parse_arguments and its helpers.                                        *)

\* The index of the last occurrence of key instead of the first.
ArgIndex_last(args, key) ==
    IF \E i \in 1..Len(args) : args[i] = key
    THEN CHOOSE i \in 1..Len(args) :
            /\ args[i] = key
            /\ \A j \in (i + 1)..Len(args) : args[j] # key
    ELSE 0

\* sys.argv.index(key), 1-based; 0 when key is not in sys.argv.
ArgIndex(args, key) ==
    IF \E i \in 1..Len(args) : args[i] = key
    THEN CHOOSE i \in 1..Len(args) :
            /\ args[i] = key
            /\ \A j \in 1..(i - 1) : args[j] # key
    ELSE 0

\* The settings after the call (st: the settings before it).
store_argument_key(args, st, key, store_in, default) ==
    IF ArgIndex(args, key) > 0 /\ ArgIndex(args, key) < Len(args)
    THEN (store_in :> StrV(args[ArgIndex(args, key) + 1])) @@ st
    ELSE (store_in :> default) @@ st

\* The pair (return value, settings after the call); before: the settings
\* before it.
validate_argument_key(before, key, type) ==
    CHOOSE r \in
        {IF key \notin DOMAIN st THEN [ok |-> FALSE, st |-> st]
         ELSE IF type = "int"
              THEN IF IntRaises(st[key]) THEN [ok |-> FALSE, st |-> st]
                   ELSE [ok |-> TRUE, st |-> (key :> IntV(IntOf(st[key]))) @@ st]
              ELSE [ok |-> TRUE, st |-> st] : st \in {before}} : TRUE

\* valid = r: the result of the last validation alone.
AndAssign_overwrite(valid, r) == r

\* valid &= r
AndAssign(valid, r) == valid /\ r

parse_arguments(args) ==
    LET s0 == <<>>
        s1 == store_argument_key(args, s0, K_rank, "rank", None)
        s2 == store_argument_key(args, s1, K_world_size, "world_size", None)
        s3 == store_argument_key(args, s2, K_announce_port, "announce_port",
                                 IntV(D_announce_port))
        s4 == store_argument_key(args, s3, K_communication_frequency,
                                 "communication_frequency",
                                 IntV(D_communication_frequency))
        s5 == store_argument_key(args, s4, K_backend, "backend", StrV(D_backend))
        s6 == store_argument_key(args, s5, K_master, "master", StrV(D_master))
        s7 == store_argument_key(args, s6, K_master_port, "master_port",
                                 IntV(D_master_port))
        s8 == store_argument_key(args, s7, K_iterations, "num_iterations",
                                 IntV(D_num_iterations))
        r1 == validate_argument_key(s8, "rank", "int")
        r2 == validate_argument_key(r1.st, "world_size", "int")
        r3 == validate_argument_key(r2.st, "announce_port", "int")
        r4 == validate_argument_key(r3.st, "communication_frequency", "int")
        r5 == validate_argument_key(r4.st, "backend", "string")
        r6 == validate_argument_key(r5.st, "master", "string")
        r7 == validate_argument_key(r6.st, "master_port", "int")
        r8 == validate_argument_key(r7.st, "num_iterations", "int")
        v1 == AndAssign(TRUE, r1.ok)
        v2 == AndAssign(v1, r2.ok)
        v3 == AndAssign(v2, r3.ok)
        v4 == AndAssign(v3, r4.ok)
        v5 == AndAssign(v4, r5.ok)
        v6 == AndAssign(v5, r6.ok)
        v7 == AndAssign(v6, r7.ok)
        v8 == AndAssign(v7, r8.ok)
    IN  ("valid" :> v8) @@ r8.st

----------------------------------------------------------------------------
(* The model and the ring.                                                 *)

\* list(model.parameters()): weight and bias of fc_1, fc_2 and fc_3.
NumParams == 6

\* The i-th tensor of the model that process p builds.
Tensor(p, i) == [origin |-> p, index |-> i]

build_model(p) == [i \in 1..NumParams |-> Tensor(p, i)]

\* The master role given to rank 1.
is_master_rank_one(rank) == rank = IntV(1)

is_master(rank) == rank = IntV(0)

\* Python's a % b for b # 0: the result has the sign of b.
PyMod(a, b) == IF b > 0 THEN a % b ELSE 0 - ((0 - a) % (0 - b))

\* The next rank without the wrap-around.
next_rank_no_wrap(rank, world_size) == rank + 1

next_rank(rank, world_size) == PyMod(rank + 1, world_size)

\* The previous rank without the wrap-around.
previous_rank_no_wrap(rank, world_size) == rank - 1

previous_rank(rank, world_size) == PyMod(rank - 1, world_size)

\* main without the check of settings['valid'].
main_valid_unchecked(st) == TRUE

\* Whether main runs the optimization.
main_valid(st) == st["valid"]

\* optimize_master without the final receive_model.
optimize_master_no_drain(at, i, num_iterations) ==
    CASE at = "entry" -> [pc |-> "m_seed", i |-> 0]
      [] at = "m_seed" ->
            IF 0 < num_iterations - 1 THEN [pc |-> "m_recv", i |-> 0]
            ELSE [pc |-> "done", i |-> 0]
      [] at = "m_recv" -> [pc |-> "m_send", i |-> i]
      [] at = "m_send" ->
            IF i + 1 < num_iterations - 1 THEN [pc |-> "m_recv", i |-> i + 1]
            ELSE [pc |-> "done", i |-> i]
      [] at = "m_drain" -> [pc |-> "done", i |-> i]

\* optimize_master looping over range(0, num_iterations).
optimize_master_extra_cycle(at, i, num_iterations) ==
    CASE at = "entry" -> [pc |-> "m_seed", i |-> 0]
      [] at = "m_seed" ->
            IF 0 < num_iterations THEN [pc |-> "m_recv", i |-> 0]
            ELSE [pc |-> "m_drain", i |-> 0]
      [] at = "m_recv" -> [pc |-> "m_send", i |-> i]
      [] at = "m_send" ->
            IF i + 1 < num_iterations THEN [pc |-> "m_recv", i |-> i + 1]
            ELSE [pc |-> "m_drain", i |-> i]
      [] at = "m_drain" -> [pc |-> "done", i |-> i]

\* optimize_master with the loop body sending without receiving first.
optimize_master_skip_receive(at, i, num_iterations) ==
    CASE at = "entry" -> [pc |-> "m_seed", i |-> 0]
      [] at = "m_seed" ->
            IF 0 < num_iterations - 1 THEN [pc |-> "m_send", i |-> 0]
            ELSE [pc |-> "m_drain", i |-> 0]
      [] at = "m_recv" -> [pc |-> "m_send", i |-> i]
      [] at = "m_send" ->
            IF i + 1 < num_iterations - 1 THEN [pc |-> "m_send", i |-> i + 1]
            ELSE [pc |-> "m_drain", i |-> i]
      [] at = "m_drain" -> [pc |-> "done", i |-> i]

\* optimize_master looping over range(0, num_iterations - 2).
optimize_master_short(at, i, num_iterations) ==
    CASE at = "entry" -> [pc |-> "m_seed", i |-> 0]
      [] at = "m_seed" ->
            IF 0 < num_iterations - 2 THEN [pc |-> "m_recv", i |-> 0]
            ELSE [pc |-> "m_drain", i |-> 0]
      [] at = "m_recv" -> [pc |-> "m_send", i |-> i]
      [] at = "m_send" ->
            IF i + 1 < num_iterations - 2 THEN [pc |-> "m_recv", i |-> i + 1]
            ELSE [pc |-> "m_drain", i |-> i]
      [] at = "m_drain" -> [pc |-> "done", i |-> i]

\* The control point of optimize_master after the call at `at` returned
\* ("entry": the function was entered), with the loop variable.
optimize_master(at, i, num_iterations) ==
    CASE at = "entry" -> [pc |-> "m_seed", i |-> 0]
      [] at = "m_seed" ->
            IF 0 < num_iterations - 1 THEN [pc |-> "m_recv", i |-> 0]
            ELSE [pc |-> "m_drain", i |-> 0]
      [] at = "m_recv" -> [pc |-> "m_send", i |-> i]
      [] at = "m_send" ->
            IF i + 1 < num_iterations - 1 THEN [pc |-> "m_recv", i |-> i + 1]
            ELSE [pc |-> "m_drain", i |-> i]
      [] at = "m_drain" -> [pc |-> "done", i |-> i]

\* optimize with the loop body sending before it receives.
optimize_send_first(at, i, num_iterations) ==
    CASE at = "entry" ->
            IF 0 < num_iterations THEN [pc |-> "w_send", i |-> 0]
            ELSE [pc |-> "done", i |-> 0]
      [] at = "w_send" -> [pc |-> "w_recv", i |-> i]
      [] at = "w_recv" ->
            IF i + 1 < num_iterations THEN [pc |-> "w_send", i |-> i + 1]
            ELSE [pc |-> "done", i |-> i]

\* The control point of optimize after the call at `at` returned.
optimize(at, i, num_iterations) ==
    CASE at = "entry" ->
            IF 0 < num_iterations THEN [pc |-> "w_recv", i |-> 0]
            ELSE [pc |-> "done", i |-> 0]
      [] at = "w_recv" -> [pc |-> "w_send", i |-> i]
      [] at = "w_send" ->
            IF i + 1 < num_iterations THEN [pc |-> "w_recv", i |-> i + 1]
            ELSE [pc |-> "done", i |-> i]

SendPoints == {"m_seed", "m_send", "w_send"}

RecvPoints == {"m_recv", "m_drain", "w_recv"}

Procs == DOMAIN pc

Rank(p) == settings[p]["rank"].v

WorldSize(p) == settings[p]["world_size"].v

NumIterations(p) == settings[p]["num_iterations"].v

\* The rank the call at control point `at` of p names.
Peer(p, at) ==
    IF at \in SendPoints THEN next_rank(Rank(p), WorldSize(p))
    ELSE previous_rank(Rank(p), WorldSize(p))

\* The control point after the call at `at` of process p returned.
Advance(p, st, at, i) ==
    IF is_master(st["rank"])
    THEN optimize_master(at, i, st["num_iterations"].v)
    ELSE optimize(at, i, st["num_iterations"].v)

\* (rank + 1) % world_size raises ZeroDivisionError.
ZeroDivision(st) == st["world_size"].v = 0

\* The trace of p once it reaches control point `to`.
Enter(tr, st, to) ==
    IF to \in SendPoints
    THEN Append(tr, [op |-> "send",
                     peer |-> next_rank(st["rank"].v, st["world_size"].v)])
    ELSE IF to \in RecvPoints
    THEN Append(tr, [op |-> "recv",
                     peer |-> previous_rank(st["rank"].v, st["world_size"].v)])
    ELSE tr

\* The loop of set_parameterization from the j-th tensor of the model on,
\* with the value i of its index variable: copy parameters[i], then i += i.
RECURSIVE SetLoop(_, _, _, _)
SetLoop(tensors, parameters, j, i) ==
    IF j > Len(tensors) THEN tensors
    ELSE SetLoop([tensors EXCEPT ![j] = parameters[i + 1]], parameters,
                 j + 1, i + i)

\* The tensors of the model after set_parameterization(model, parameters).
set_parameterization(tensors, parameters) == SetLoop(tensors, parameters, 1, 0)

\* The control points followed by "TODO Add training".
TrainingPoints == {"m_recv", "w_recv"}

\* The payloads p has passed to send_model once it reaches control point
\* `to` with the model `payload`.
EnterSent(sn, payload, to) ==
    IF to \in SendPoints THEN Append(sn, payload) ELSE sn

\* The index of the tensor that the loop of send_parameters is at.
send_parameters_at(p) == slot[p] + 1

\* receive_parameters filling the tensors from the last one to the first.
receive_parameters_reversed(p) == NumParams - slot[p]

\* The index of the tensor that the loop of receive_parameters is at.
receive_parameters_at(p) == slot[p] + 1

----------------------------------------------------------------------------
(* Actions.                                                                *)

\* main: parse the arguments, then join the process group and enter the
\* loop of the role, or print the usage.
Main(p) ==
    /\ pc[p] = "start"
    /\ \E st \in {parse_arguments(argv[p])} :
       \E to \in {Advance(p, st, "entry", 0)} :
           /\ settings' = [settings EXCEPT ![p] = st]
           /\ IF main_valid(st)
              THEN /\ group' = [group EXCEPT ![p] = TRUE]
                   /\ model' = [model EXCEPT ![p] = build_model(p)]
                   /\ written' = [written EXCEPT ![p] =
                          [i \in 1..NumParams |-> [call |-> 0, index |-> i]]]
                   /\ IF ZeroDivision(st)
                      THEN /\ pc' = [pc EXCEPT ![p] = "crashed"]
                           /\ UNCHANGED <<loop, trace, sent>>
                      ELSE /\ pc' = [pc EXCEPT ![p] = to.pc]
                           /\ loop' = [loop EXCEPT ![p] = to.i]
                           /\ trace' = [trace EXCEPT ![p] = Enter(@, st, to.pc)]
                           /\ sent' = [sent EXCEPT ![p] =
                                  EnterSent(@, build_model(p), to.pc)]
                   /\ UNCHANGED printed
              ELSE /\ printed' = [printed EXCEPT ![p] = TRUE]
                   /\ pc' = [pc EXCEPT ![p] = "exit"]
                   /\ UNCHANGED <<group, model, loop, trace, sent, written>>
    /\ UNCHANGED <<world, cap, argv, iters, slot, phase, chan, nsend, nrecv,
                   visits, updates, params>>

\* send_parameters: dist.send(p.data, destination) hands the next tensor to
\* the transport.
DistSend(p) ==
    /\ pc[p] \in SendPoints
    /\ phase[p] = "call"
    /\ <<Rank(p), Peer(p, pc[p])>> \in DOMAIN chan
    /\ chan' = [chan EXCEPT ![<<Rank(p), Peer(p, pc[p])>>] =
                    Append(@, [val |-> model[p][send_parameters_at(p)],
                               index |-> send_parameters_at(p),
                               call |-> nsend[p] + 1])]
    /\ phase' = [phase EXCEPT ![p] = "wait"]
    /\ UNCHANGED <<world, cap, argv, iters, settings, pc, group, printed, model,
                   loop, slot, trace, nsend, nrecv, visits, updates, sent,
                   written, params>>

\* dist.send returning without waiting for the transport.
SendReturn_no_wait(p) ==
    /\ pc[p] \in SendPoints
    /\ phase[p] = "wait"
    /\ phase' = [phase EXCEPT ![p] = "call"]
    /\ IF slot[p] + 1 < NumParams
       THEN /\ slot' = [slot EXCEPT ![p] = @ + 1]
            /\ UNCHANGED <<pc, loop, trace, nsend, sent>>
       ELSE LET to == Advance(p, settings[p], pc[p], loop[p])
            IN  /\ slot' = [slot EXCEPT ![p] = 0]
                /\ nsend' = [nsend EXCEPT ![p] = @ + 1]
                /\ pc' = [pc EXCEPT ![p] = to.pc]
                /\ loop' = [loop EXCEPT ![p] = to.i]
                /\ trace' = [trace EXCEPT ![p] = Enter(@, settings[p], to.pc)]
                /\ sent' = [sent EXCEPT ![p] = EnterSent(@, model[p], to.pc)]
    /\ UNCHANGED <<world, cap, argv, iters, settings, group, printed, model,
                   chan, nrecv, visits, updates, written, params>>

\* dist.send returns once the transport has taken the tensor: the receiver
\* has it, or it fits the transport's buffer.  After the last tensor
\* send_model returns.
SendReturn(p) ==
    /\ pc[p] \in SendPoints
    /\ phase[p] = "wait"
    /\ Len(chan[<<Rank(p), Peer(p, pc[p])>>]) <= cap
    /\ phase' = [phase EXCEPT ![p] = "call"]
    /\ IF slot[p] + 1 < NumParams
       THEN /\ slot' = [slot EXCEPT ![p] = @ + 1]
            /\ UNCHANGED <<pc, loop, trace, nsend, sent>>
       ELSE LET to == Advance(p, settings[p], pc[p], loop[p])
            IN  /\ slot' = [slot EXCEPT ![p] = 0]
                /\ nsend' = [nsend EXCEPT ![p] = @ + 1]
                /\ pc' = [pc EXCEPT ![p] = to.pc]
                /\ loop' = [loop EXCEPT ![p] = to.i]
                /\ trace' = [trace EXCEPT ![p] = Enter(@, settings[p], to.pc)]
                /\ sent' = [sent EXCEPT ![p] = EnterSent(@, model[p], to.pc)]
    /\ UNCHANGED <<world, cap, argv, iters, settings, group, printed, model,
                   chan, nrecv, visits, updates, written, params>>

\* receive_parameters: dist.recv(p.data, source) takes the next tensor sent
\* by source and overwrites the tensor in place.  After the last tensor
\* receive_model returns.
DistRecv(p) ==
    /\ pc[p] \in RecvPoints
    /\ <<Peer(p, pc[p]), Rank(p)>> \in DOMAIN chan
    /\ chan[<<Peer(p, pc[p]), Rank(p)>>] # <<>>
    /\ LET src == <<Peer(p, pc[p]), Rank(p)>>
           m == Head(chan[src])
           received == [model[p] EXCEPT ![receive_parameters_at(p)] = m.val]
       IN  /\ chan' = [chan EXCEPT ![src] = Tail(@)]
           /\ model' = [model EXCEPT ![p] = received]
           /\ written' = [written EXCEPT ![p][receive_parameters_at(p)] =
                              [call |-> m.call, index |-> m.index]]
           /\ IF slot[p] + 1 < NumParams
              THEN /\ slot' = [slot EXCEPT ![p] = @ + 1]
                   /\ UNCHANGED <<pc, loop, trace, nrecv, visits, updates, sent>>
              ELSE LET to == Advance(p, settings[p], pc[p], loop[p])
                   IN  /\ slot' = [slot EXCEPT ![p] = 0]
                       /\ updates' = IF pc[p] \in TrainingPoints
                                     THEN Append(updates, Rank(p))
                                     ELSE updates
                       /\ sent' = [sent EXCEPT ![p] =
                                      EnterSent(@, received, to.pc)]
                       /\ nrecv' = [nrecv EXCEPT ![p] = @ + 1]
                       /\ visits' = [visits EXCEPT ![p] =
                              IF received = build_model(0) THEN @ + 1 ELSE @]
                       /\ pc' = [pc EXCEPT ![p] = to.pc]
                       /\ loop' = [loop EXCEPT ![p] = to.i]
                       /\ trace' = [trace EXCEPT ![p] =
                                        Enter(@, settings[p], to.pc)]
    /\ UNCHANGED <<world, cap, argv, iters, settings, group, printed, phase,
                   nsend, params>>

\* dist.send or dist.recv raises a transport error: nothing in
\* send_parameters, receive_parameters or the loops catches it, so the
\* process ends there.
TransportError(p) ==
    /\ pc[p] \in SendPoints \cup RecvPoints
    /\ pc' = [pc EXCEPT ![p] = "failed"]
    /\ UNCHANGED <<world, cap, argv, iters, settings, group, printed, model,
                   loop, slot, phase, chan, trace, nsend, nrecv, visits, updates,
                   sent, written, params>>

\* A call of set_parameterization on the model of p.
SetParameterization(p) ==
    /\ pc[p] = "set"
    /\ model' = [model EXCEPT ![p] = set_parameterization(@, params)]
    /\ pc' = [pc EXCEPT ![p] = "set_done"]
    /\ UNCHANGED <<world, cap, argv, iters, settings, group, printed, loop, slot,
                   phase, chan, trace, nsend, nrecv, visits, updates, sent,
                   written, params>>

\* A step of process p, for the fairness of its scheduling.
Step(p) ==
    /\ p \in Procs
    /\ \/ Main(p)
       \/ DistSend(p)
       \/ SendReturn(p)
       \/ DistRecv(p)

Next ==
    \E p \in Procs :
        \/ Main(p)
        \/ DistSend(p)
        \/ SendReturn(p)
        \/ DistRecv(p)

----------------------------------------------------------------------------
(* Launches.                                                               *)

DigitChar(d) ==
    CASE d = 0 -> "0" [] d = 1 -> "1" [] d = 2 -> "2" [] d = 3 -> "3"
      [] d = 4 -> "4" [] d = 5 -> "5" [] d = 6 -> "6" [] d = 7 -> "7"
      [] d = 8 -> "8" [] d = 9 -> "9"

RECURSIVE Decimal(_)
Decimal(n) ==
    IF n < 10 THEN <<DigitChar(n)>>
    ELSE Decimal(n \div 10) \o <<DigitChar(n % 10)>>

NotANumber == <<"a", "b", "c">>

\* The command line of rank p in a ring of w processes doing n iterations.
CommandLine(p, w, n) ==
    <<Script, K_rank, Decimal(p), K_world_size, Decimal(w),
      K_iterations, Decimal(n)>>

FaultKinds ==
    {"no_rank", "bad_rank", "bad_announce_port", "bad_frequency", "rank_last"}

\* A command line of rank p with one mistake.
FaultyCommandLine(kind, p, w, n) ==
    CASE kind = "no_rank" ->
            <<Script, K_world_size, Decimal(w), K_iterations, Decimal(n)>>
      [] kind = "bad_rank" ->
            <<Script, K_rank, NotANumber, K_world_size, Decimal(w),
              K_iterations, Decimal(n)>>
      [] kind = "bad_announce_port" ->
            <<Script, K_announce_port, NotANumber>> \o Tail(CommandLine(p, w, n))
      [] kind = "bad_frequency" ->
            CommandLine(p, w, n) \o <<K_communication_frequency, NotANumber>>
      [] kind = "rank_last" ->
            <<Script, K_world_size, Decimal(w), K_iterations, Decimal(n), K_rank>>

\* Every process is at the start of main; at most one of the command lines
\* has a mistake.
Launched(w, c, n, line) ==
    /\ world = w
    /\ cap = c
    /\ iters = n
    /\ argv = line
    /\ settings = [p \in 0..(w - 1) |-> <<>>]
    /\ pc = [p \in 0..(w - 1) |-> "start"]
    /\ group = [p \in 0..(w - 1) |-> FALSE]
    /\ printed = [p \in 0..(w - 1) |-> FALSE]
    /\ model = [p \in 0..(w - 1) |-> <<>>]
    /\ loop = [p \in 0..(w - 1) |-> 0]
    /\ slot = [p \in 0..(w - 1) |-> 0]
    /\ phase = [p \in 0..(w - 1) |-> "call"]
    /\ chan = [e \in (0..(w - 1)) \X (0..(w - 1)) |-> <<>>]
    /\ trace = [p \in 0..(w - 1) |-> <<>>]
    /\ nsend = [p \in 0..(w - 1) |-> 0]
    /\ nrecv = [p \in 0..(w - 1) |-> 0]
    /\ visits = [p \in 0..(w - 1) |-> 0]
    /\ updates = <<>>
    /\ sent = [p \in 0..(w - 1) |-> <<>>]
    /\ written = [p \in 0..(w - 1) |-> <<>>]
    /\ params = <<>>

Init ==
    \E w \in 1..MaxWorld, c \in 0..MaxCap, n \in 0..MaxIter :
        \/ Launched(w, c, n, [p \in 0..(w - 1) |-> CommandLine(p, w, n)])
        \/ \E f \in 0..(w - 1), kind \in FaultKinds :
              Launched(w, c, n,
                       [p \in 0..(w - 1) |->
                           IF p = f THEN FaultyCommandLine(kind, p, w, n)
                           ELSE CommandLine(p, w, n)])

Spec == Init /\ [][Next]_vars

\* The ring over a transport that can fail.
FaultNext ==
    \/ Next
    \/ \E p \in Procs : TransportError(p)

FaultSpec == Init /\ [][FaultNext]_vars

\* Every process is scheduled by the operating system on its own.
FairSpec == Spec /\ \A p \in 0..(MaxWorld - 1) : WF_vars(Step(p))

----------------------------------------------------------------------------
(* The parser on its own: one process, every combination of the integer    *)
(* flags being absent, a number or not a number, and possibly a flag left  *)
(* without a value, or given a second time, at the end of the command      *)
(* line.                                                                   *)

IntKeys ==
    {K_rank, K_world_size, K_announce_port, K_communication_frequency,
     K_master_port, K_iterations}

ParseValues == {<<"1", "0">>, <<"0">>, <<"-", "1">>, <<"1", "x">>}

Choices(key) == {<<>>} \cup {<<key, v>> : v \in ParseValues}

InitParse ==
    \E a \in Choices(K_rank), b \in Choices(K_world_size),
       c \in Choices(K_announce_port), d \in Choices(K_communication_frequency),
       e \in Choices(K_master_port), f \in Choices(K_iterations),
       g \in {<<>>} \cup {<<k>> : k \in IntKeys}
                   \cup {<<k, <<"7">>>> : k \in {K_rank, K_announce_port}} :
        Launched(1, 0, 0, [p \in {0} |-> <<Script>> \o a \o b \o c \o d \o e \o f \o g])

NextParse == \E p \in Procs : Main(p)

ParseSpec == InitParse /\ [][NextParse]_vars

----------------------------------------------------------------------------
(* set_parameterization on its own: one process with a model of 1 to       *)
(* MaxTensors tensors and as many parameters.                              *)

TensorValues == {[origin |-> o, index |-> 1] : o \in 0..2}

InitSet ==
    \E n \in 1..MaxTensors :
        \E tensors \in [1..n -> TensorValues], parameters \in [1..n -> TensorValues] :
            /\ world = 1
            /\ cap = 0
            /\ iters = 0
            /\ argv = [p \in {0} |-> <<Script>>]
            /\ settings = [p \in {0} |-> <<>>]
            /\ pc = [p \in {0} |-> "set"]
            /\ group = [p \in {0} |-> FALSE]
            /\ printed = [p \in {0} |-> FALSE]
            /\ model = [p \in {0} |-> tensors]
            /\ loop = [p \in {0} |-> 0]
            /\ slot = [p \in {0} |-> 0]
            /\ phase = [p \in {0} |-> "call"]
            /\ chan = [e \in {<<0, 0>>} |-> <<>>]
            /\ trace = [p \in {0} |-> <<>>]
            /\ nsend = [p \in {0} |-> 0]
            /\ nrecv = [p \in {0} |-> 0]
            /\ visits = [p \in {0} |-> 0]
            /\ updates = <<>>
            /\ sent = [p \in {0} |-> <<>>]
            /\ written = [p \in {0} |-> <<>>]
            /\ params = parameters

NextSet == \E p \in Procs : SetParameterization(p)

SetSpec == InitSet /\ [][NextSet]_vars

----------------------------------------------------------------------------
(* Properties.                                                             *)

WellFormed == \A p \in Procs : argv[p] = CommandLine(p, world, iters)

AllDone == \A p \in Procs : pc[p] = "done"

MasterPoints == {"m_seed", "m_recv", "m_send", "m_drain"}

WorkerPoints == {"w_recv", "w_send"}

\* The send_model calls p has started.
SendsStarted(p) == Cardinality({k \in 1..Len(trace[p]) : trace[p][k].op = "send"})

\* C1: in a ring of at least two processes doing N >= 1 iterations, a
\* process that has returned from its loop has finished exactly N send_model
\* calls and N receive_model calls, and the master's payload has arrived in
\* it exactly N times.
LapCount ==
    \A p \in Procs :
        (world >= 2 /\ iters >= 1 /\ pc[p] = "done") =>
            /\ nsend[p] = iters
            /\ nrecv[p] = iters
            /\ visits[p] = iters

LapCountWitness ==
    /\ world = MaxWorld
    /\ iters = MaxIter
    /\ AllDone
    /\ \A p \in Procs : nsend[p] = MaxIter /\ visits[p] = MaxIter

\* C2: with N >= 1, a process is in the master loop only if its rank is 0
\* and in the worker loop only if its rank is not 0; the first call of the
\* rank 0 process is a send and its last one a receive, the first call of
\* any other process is a receive and its last one a send.
MasterAsymmetry ==
    \A p \in Procs :
        (iters >= 1 /\ group[p]) =>
            /\ pc[p] \in MasterPoints => Rank(p) = 0
            /\ pc[p] \in WorkerPoints => Rank(p) # 0
            /\ pc[p] # "crashed"
            /\ trace[p] # <<>>
            /\ trace[p][1].op = (IF Rank(p) = 0 THEN "send" ELSE "recv")
            /\ pc[p] = "done" =>
                  trace[p][Len(trace[p])].op =
                      (IF Rank(p) = 0 THEN "recv" ELSE "send")

MasterAsymmetryWitness ==
    /\ world >= 2
    /\ iters = MaxIter
    /\ AllDone
    /\ trace[0][1].op = "send"
    /\ trace[1][Len(trace[1])].op = "send"

\* C3: a ring of at least two processes launched with ranks 0..world-1 and
\* the same N >= 1 ends with every process returned from its loop.
Termination == (WellFormed /\ world >= 2 /\ iters >= 1) ~> AllDone

TerminationWitness ==
    /\ WellFormed
    /\ world >= 2
    /\ iters >= 1
    /\ cap = 0
    /\ AllDone

\* C4: a ring of one process doing N >= 1 iterations never comes to a halt
\* before the master has returned from its loop.
DegenerateRingNoDeadlock ==
    (world = 1 /\ WellFormed /\ iters >= 1) => (pc[0] = "done" \/ ENABLED Next)

\* A process that has the whole payload and is about to send it.
Holds(p) == group[p] /\ pc[p] \in SendPoints /\ slot[p] = 0 /\ phase[p] = "call"

\* The payload is partly or wholly between rank e[1] and rank e[2].
InFlight(e) ==
    \/ chan[e] # <<>>
    \/ \E p \in Procs :
          /\ group[p] /\ pc[p] \in SendPoints
          /\ <<Rank(p), Peer(p, pc[p])>> = e
          /\ slot[p] > 0 /\ phase[p] = "call"
    \/ \E q \in Procs :
          /\ group[q] /\ pc[q] \in RecvPoints
          /\ <<Peer(q, pc[q]), Rank(q)>> = e
          /\ slot[q] > 0

\* C5: from the start of the master until its drain receive has returned,
\* either exactly one process has the payload or the payload is on exactly
\* one edge, and that edge goes from a rank to its next rank.
SingleOwnership ==
    (group[0] /\ pc[0] # "done") =>
        /\ Cardinality({p \in Procs : Holds(p)})
             + Cardinality({e \in DOMAIN chan : InFlight(e)}) = 1
        /\ \A e \in DOMAIN chan : InFlight(e) => e[2] = (e[1] + 1) % world

SingleOwnershipWitness ==
    /\ world = MaxWorld
    /\ pc[0] = "m_recv"
    /\ Holds(2)
    /\ nrecv[2] = 1

\* C6: a worker has never started more send_model calls than it has finished
\* receive_model calls, the master at most one more, and a worker starts a
\* send only after the master has handed the first tensor of its seed to
\* the transport.
CausalOrder ==
    \A p \in Procs :
        group[p] =>
            /\ SendsStarted(p) <= nrecv[p] + (IF Rank(p) = 0 THEN 1 ELSE 0)
            /\ (Rank(p) # 0 /\ SendsStarted(p) > 0) =>
                  /\ group[0]
                  /\ ~(pc[0] = "m_seed" /\ slot[0] = 0 /\ phase[0] = "call")

CausalOrderWitness ==
    /\ world = MaxWorld
    /\ SendsStarted(2) = 2
    /\ nrecv[2] = 2
    /\ SendsStarted(0) = 2
    /\ nrecv[0] = 1

RECURSIVE IterateNext(_, _, _)
IterateNext(rank, world_size, times) ==
    IF times = 0 THEN rank
    ELSE IterateNext(next_rank(rank, world_size), world_size, times - 1)

\* C7: for every process in the ring, the next and the previous rank are
\* ranks of the ring, each undoes the other, and world_size steps of next
\* lead back to the rank.
RingClosure ==
    \A p \in Procs :
        group[p] =>
            LET r == Rank(p)
                w == WorldSize(p)
            IN  /\ next_rank(r, w) \in 0..(w - 1)
                /\ previous_rank(r, w) \in 0..(w - 1)
                /\ next_rank(previous_rank(r, w), w) = r
                /\ previous_rank(next_rank(r, w), w) = r
                /\ IterateNext(r, w, w) = r

RingClosureWitness ==
    /\ world = MaxWorld
    /\ \A p \in Procs : group[p] /\ Rank(p) = p /\ WorldSize(p) = MaxWorld
    /\ \E p \in Procs : next_rank(Rank(p), MaxWorld) = 0
    /\ \E p \in Procs : previous_rank(Rank(p), MaxWorld) = MaxWorld - 1

\* C8: a process whose settings are invalid has printed the usage and
\* ended; it has not joined the process group, built a model or started a
\* send or a receive.
InvalidNoNetwork ==
    \A p \in Procs :
        (pc[p] # "start" /\ ~settings[p]["valid"]) =>
            /\ pc[p] = "exit"
            /\ printed[p]
            /\ ~group[p]
            /\ trace[p] = <<>>
            /\ model[p] = <<>>
            /\ nsend[p] = 0 /\ nrecv[p] = 0

InvalidNoNetworkWitness ==
    \E p \in Procs :
        /\ pc[p] = "exit"
        /\ ~settings[p]["valid"]
        /\ \E q \in Procs : group[q] /\ trace[q] # <<>>

\* A flag followed by a value.
Supplied(args, key) == \E i \in 1..(Len(args) - 1) : args[i] = key

\* The value after the first occurrence of the flag.
ValueOf(args, key) ==
    args[1 + CHOOSE i \in 1..(Len(args) - 1) :
                 args[i] = key /\ \A j \in 1..(i - 1) : args[j] # key]

\* An optional sign and at least one digit.
IsDecimalLiteral(tok) ==
    LET first == IF tok # <<>> /\ tok[1] \in {"+", "-"} THEN 2 ELSE 1
    IN  first <= Len(tok) /\ \A i \in first..Len(tok) : tok[i] \in Digits

ConfigurationError(args) ==
    \/ ~Supplied(args, K_rank)
    \/ ~Supplied(args, K_world_size)
    \/ \E key \in IntKeys :
          Supplied(args, key) /\ ~IsDecimalLiteral(ValueOf(args, key))

\* C9: the settings are invalid exactly when --rank or --world-size has no
\* value or the value of some integer flag is not a number.
InvalidExactly ==
    \A p \in Procs :
        pc[p] # "start" => (~settings[p]["valid"] <=> ConfigurationError(argv[p]))

\* Only the announce port is wrong, and fields validated after it are fine.
InvalidExactlyWitness ==
    \E p \in Procs :
        /\ pc[p] = "exit"
        /\ ~settings[p]["valid"]
        /\ Supplied(argv[p], K_rank) /\ Supplied(argv[p], K_world_size)
        /\ Supplied(argv[p], K_master_port) /\ Supplied(argv[p], K_iterations)
        /\ \A key \in IntKeys \ {K_announce_port} :
              Supplied(argv[p], key) => IsDecimalLiteral(ValueOf(argv[p], key))
        /\ Supplied(argv[p], K_announce_port)
        /\ ~IsDecimalLiteral(ValueOf(argv[p], K_announce_port))

\* C10: a process configured with num_iterations = 0 never joins the
\* process group and never starts a send or a receive.
ZeroIterationsRejected ==
    \A p \in Procs :
        (pc[p] # "start" /\ settings[p]["num_iterations"] = IntV(0)) =>
            /\ ~group[p]
            /\ trace[p] = <<>>

\* The process whose rank is r.
ProcOf(r) == CHOOSE p \in Procs : group[p] /\ Rank(p) = r

\* The processes next to the dead process r on the ring.
Neighbours(r) ==
    {q \in Procs \ {r} :
        /\ group[q]
        /\ Rank(q) \in {next_rank(Rank(r), WorldSize(r)),
                        previous_rank(Rank(r), WorldSize(r))}}

BlockedOn(q, r) ==
    /\ pc[r] = "failed"
    /\ q \in Neighbours(r)
    /\ \/ /\ pc[q] \in RecvPoints
          /\ Peer(q, pc[q]) = Rank(r)
          /\ chan[<<Rank(r), Rank(q)>>] = <<>>
       \/ /\ pc[q] \in SendPoints
          /\ Peer(q, pc[q]) = Rank(r)
          /\ phase[q] = "wait"
          /\ Len(chan[<<Rank(q), Rank(r)>>]) > cap

RECURSIVE Cycles(_, _, _)
Cycles(k, before, after) ==
    IF k <= 0 THEN <<>>
    ELSE <<[op |-> "recv", peer |-> before], [op |-> "send", peer |-> after]>>
            \o Cycles(k - 1, before, after)

ExpectedTrace(r, w, n) ==
    LET after == IF r = w - 1 THEN 0 ELSE r + 1
        before == IF r = 0 THEN w - 1 ELSE r - 1
    IN  IF r = 0
        THEN <<[op |-> "send", peer |-> after]>> \o Cycles(n - 1, before, after)
                \o <<[op |-> "recv", peer |-> before]>>
        ELSE Cycles(n, before, after)

\* C12: in a ring of at least two processes doing N >= 1 iterations, the
\* calls a process has started are a prefix of its expected sequence (the
\* whole sequence once it is done), and it has started at most one call
\* more than it has finished.
OperationSequence ==
    \A p \in Procs :
        (world >= 2 /\ iters >= 1 /\ group[p]) =>
            LET e == ExpectedTrace(Rank(p), world, iters)
            IN  /\ Len(trace[p]) <= Len(e)
                /\ trace[p] = SubSeq(e, 1, Len(trace[p]))
                /\ pc[p] = "done" => trace[p] = e
                /\ Len(trace[p]) = nsend[p] + nrecv[p]
                      + (IF pc[p] \in SendPoints \cup RecvPoints THEN 1 ELSE 0)

\* The scenario of the specification: three processes, two iterations.
OperationSequenceWitness ==
    /\ world = 3
    /\ iters = 2
    /\ AllDone
    /\ trace[0] = <<[op |-> "send", peer |-> 1], [op |-> "recv", peer |-> 2],
                    [op |-> "send", peer |-> 1], [op |-> "recv", peer |-> 2]>>
    /\ trace[1] = <<[op |-> "recv", peer |-> 0], [op |-> "send", peer |-> 2],
                    [op |-> "recv", peer |-> 0], [op |-> "send", peer |-> 2]>>
    /\ trace[2] = <<[op |-> "recv", peer |-> 1], [op |-> "send", peer |-> 0],
                    [op |-> "recv", peer |-> 1], [op |-> "send", peer |-> 0]>>

\* The ranks that apply the training step in n laps of a ring of w
\* processes: 1, 2, ..., w-1, 0, 1, ..., without the master in the last lap.
RECURSIVE UpdateOrder(_, _)
UpdateOrder(w, n) ==
    IF n <= 0 THEN <<>>
    ELSE IF n = 1 THEN [k \in 1..(w - 1) |-> k]
    ELSE UpdateOrder(w, n - 1) \o <<0>> \o [k \in 1..(w - 1) |-> k]

TimesIn(seq, r) == Cardinality({k \in 1..Len(seq) : seq[k] = r})

\* C13: when the master of a ring of at least two processes doing N >= 1
\* iterations is done, the training step was passed in ring order, N times
\* by each worker and N - 1 times by the master, and, the step doing
\* nothing, the master's payload is the one it seeded.
FinalPayload ==
    (world >= 2 /\ iters >= 1 /\ group[0] /\ pc[0] = "done") =>
        /\ updates = UpdateOrder(world, iters)
        /\ \A p \in Procs : TimesIn(updates, p) = (IF p = 0 THEN iters - 1 ELSE iters)
        /\ model[0] = [i \in 1..NumParams |-> [origin |-> 0, index |-> i]]
        /\ sent[0][1] = model[0]

FinalPayloadWitness ==
    /\ world = MaxWorld
    /\ iters = MaxIter
    /\ pc[0] = "done"
    /\ Len(updates) = MaxWorld * MaxIter - 1
    /\ updates[MaxWorld] = 0

\* C14: in a ring of at least two processes, slot i of a process holds
\* tensor i of the payload its previous rank passed to its k-th send_model,
\* k being the receive_model call that last reached slot i (the current one
\* for the slots it has filled, the last finished one for the others); a
\* slot no receive has reached holds the process's own tensor.
SlotOrderTransfer ==
    \A q \in Procs :
        (world >= 2 /\ group[q] /\ pc[q] # "crashed") =>
            \A i \in 1..NumParams :
                LET from == IF q = 0 THEN world - 1 ELSE q - 1
                    k == IF pc[q] \in RecvPoints /\ i <= slot[q]
                         THEN nrecv[q] + 1 ELSE nrecv[q]
                IN  IF k = 0
                    THEN /\ written[q][i] = [call |-> 0, index |-> i]
                         /\ model[q][i] = [origin |-> q, index |-> i]
                    ELSE /\ written[q][i] = [call |-> k, index |-> i]
                         /\ Len(sent[from]) >= k
                         /\ model[q][i] = sent[from][k][i]

\* Two processes, the worker in the middle of its second receive.
SlotOrderTransferWitness ==
    /\ world = 2
    /\ pc[1] = "w_recv"
    /\ nrecv[1] = 1
    /\ slot[1] = 3
    /\ written[1][3] = [call |-> 2, index |-> 3]
    /\ written[1][4] = [call |-> 1, index |-> 4]

\* C15: after set_parameterization(model, parameters) the i-th tensor of
\* the model equals parameters[i], for every i.
SetParameterizationSets ==
    \A p \in Procs :
        pc[p] = "set_done" =>
            \A i \in 1..Len(model[p]) : model[p][i] = params[i]

\* The fields of the settings: flag, key, default, kind, and whether the
\* field has no usable default.
Fields ==
    {[key |-> K_rank, field |-> "rank", default |-> None,
      int |-> TRUE, required |-> TRUE],
     [key |-> K_world_size, field |-> "world_size", default |-> None,
      int |-> TRUE, required |-> TRUE],
     [key |-> K_announce_port, field |-> "announce_port",
      default |-> IntV(D_announce_port), int |-> TRUE, required |-> FALSE],
     [key |-> K_communication_frequency, field |-> "communication_frequency",
      default |-> IntV(D_communication_frequency), int |-> TRUE,
      required |-> FALSE],
     [key |-> K_backend, field |-> "backend", default |-> StrV(D_backend),
      int |-> FALSE, required |-> FALSE],
     [key |-> K_master, field |-> "master", default |-> StrV(D_master),
      int |-> FALSE, required |-> FALSE],
     [key |-> K_master_port, field |-> "master_port",
      default |-> IntV(D_master_port), int |-> TRUE, required |-> FALSE],
     [key |-> K_iterations, field |-> "num_iterations",
      default |-> IntV(D_num_iterations), int |-> TRUE, required |-> FALSE]}

\* What the settings hold for a stored token once the field is validated.
Validated(f, tok) ==
    IF f.int /\ IsDecimalLiteral(tok) THEN IntV(IntOf(StrV(tok))) ELSE StrV(tok)

\* The flag occurs only as the last token, with no value after it.
LastWithoutValue(args, key) ==
    /\ args[Len(args)] = key
    /\ ~Supplied(args, key)

\* C16: every field holds the token after the first occurrence of its flag,
\* or its default when the flag is absent or is the last token; a required
\* flag given as the last token leaves the settings invalid, an optional one
\* given that way takes its default and leaves them valid when nothing else
\* is wrong.
StoresFirstOccurrence ==
    \A p \in Procs :
        pc[p] # "start" =>
            \A f \in Fields :
                /\ Supplied(argv[p], f.key) =>
                      settings[p][f.field] = Validated(f, ValueOf(argv[p], f.key))
                /\ ~Supplied(argv[p], f.key) =>
                      settings[p][f.field] = f.default
                /\ (LastWithoutValue(argv[p], f.key) /\ f.required) =>
                      ~settings[p]["valid"]
                /\ (/\ LastWithoutValue(argv[p], f.key)
                    /\ ~f.required
                    /\ ~ConfigurationError(argv[p])) =>
                      /\ settings[p][f.field] = f.default
                      /\ settings[p]["valid"]

\* --annouce-port is the last token and occurs nowhere else: the settings
\* are valid and hold the default port.
StoresFirstOccurrenceWitness ==
    \E p \in Procs :
        /\ pc[p] # "start"
        /\ LastWithoutValue(argv[p], K_announce_port)
        /\ settings[p]["valid"]
        /\ settings[p]["announce_port"] = IntV(D_announce_port)

====
